---- MODULE Spec2Model ----
(***************************************************************************)
(* Model of midterm.py: a linear pipeline over an in-memory table of      *)
(* football players.  A text value (str) is a sequence of one-character   *)
(* strings, a row is a sequence of fields, a table a sequence of rows.    *)
(* A float produced by round(x, p) is the record [num, den] that stands   *)
(* for the decimal num / den, den = 10^p.                                 *)
(***************************************************************************)
EXTENDS Integers, Sequences, FiniteSets, TLC

(***************************************************************************)
(* Text: the characters the inputs are drawn from, in code-point order.   *)
(***************************************************************************)
Chars ==
    << " ", "+", ",", "-", ".",
       "0", "1", "2", "3", "4", "5", "6", "7", "8", "9",
       "A", "B", "C", "D", "E", "F", "G", "H", "I", "J", "K", "L", "M",
       "N", "O", "P", "Q", "R", "S", "T", "U", "V", "W", "X", "Y", "Z",
       "_",
       "a", "b", "c", "d", "e", "f", "g", "h", "i", "j", "k", "l", "m",
       "n", "o", "p", "q", "r", "s", "t", "u", "v", "w", "x", "y", "z",
       "|" >>

CharSet == { Chars[i] : i \in 1..Len(Chars) }

\* position of a character in code-point order (what str comparison uses)
Ord == [ c \in CharSet |-> CHOOSE i \in 1..Len(Chars) : Chars[i] = c ]

UpperFirst == Ord["A"]

LowerFirst == Ord["a"]

IsUpperChar(c) == Ord[c] >= UpperFirst /\ Ord[c] < UpperFirst + 26

IsLowerChar(c) == Ord[c] >= LowerFirst /\ Ord[c] < LowerFirst + 26

\* str.upper() and str.lower(), character by character
UpperChar(c) == IF IsLowerChar(c) THEN Chars[Ord[c] - LowerFirst + UpperFirst] ELSE c

LowerChar(c) == IF IsUpperChar(c) THEN Chars[Ord[c] - UpperFirst + LowerFirst] ELSE c

Upper(s) == [ i \in 1..Len(s) |-> UpperChar(s[i]) ]

Lower(s) == [ i \in 1..Len(s) |-> LowerChar(s[i]) ]

\* s[:n] and s[n:] of Python, n >= 0 (a slice never faults)
Prefix(s, n) == SubSeq(s, 1, IF n < Len(s) THEN n ELSE Len(s))

Suffix(s, n) == SubSeq(s, n + 1, Len(s))

\* s < t in Python's ordering of str (lexicographic by code point)
RECURSIVE StrLess(_, _)
StrLess(s, t) ==
    IF t = << >> THEN FALSE
    ELSE IF s = << >> THEN TRUE
    ELSE IF Ord[Head(s)] # Ord[Head(t)] THEN Ord[Head(s)] < Ord[Head(t)]
    ELSE StrLess(Tail(s), Tail(t))

\* list.index(x): the first position (0-based) holding x; ValueError when absent
Has(seq, x) == \E i \in 1..Len(seq) : seq[i] = x

IndexOf(seq, x) == (CHOOSE i \in 1..Len(seq) : seq[i] = x /\ \A j \in 1..(i - 1) : seq[j] # x) - 1

\* row[idx] with a 0-based idx >= 0: defined when the row is long enough
HasIdx(row, idx) == idx < Len(row)

At(row, idx) == row[idx + 1]

\* list.insert(idx, x), 0 <= idx
Insert(row, idx, x) ==
    IF idx >= Len(row) THEN Append(row, x)
    ELSE SubSeq(row, 1, idx) \o << x >> \o SubSeq(row, idx + 1, Len(row))

SetAt(row, idx, x) == [ row EXCEPT ![idx + 1] = x ]

(***************************************************************************)
(* int(text): optional blanks, an optional sign, then decimal digits.     *)
(***************************************************************************)
IsDigit(c) == Ord[c] >= Ord["0"] /\ Ord[c] <= Ord["9"]

RECURSIVE LStrip(_)
LStrip(s) == IF s # << >> /\ Head(s) = " " THEN LStrip(Tail(s)) ELSE s

RECURSIVE RStrip(_)
RStrip(s) == IF s # << >> /\ s[Len(s)] = " " THEN RStrip(SubSeq(s, 1, Len(s) - 1)) ELSE s

Strip(s) == RStrip(LStrip(s))

Unsigned(s) == IF s # << >> /\ Head(s) \in { "+", "-" } THEN Tail(s) ELSE s

IsInt(s) ==
    LET d == Unsigned(Strip(s))
    IN  /\ d # << >>
        /\ \A i \in 1..Len(d) : IsDigit(d[i])

RECURSIVE DigitsValue(_)
DigitsValue(d) ==
    IF d = << >> THEN 0
    ELSE 10 * DigitsValue(SubSeq(d, 1, Len(d) - 1)) + (Ord[d[Len(d)]] - Ord["0"])

ParseInt(s) ==
    LET t == Strip(s)
        v == DigitsValue(Unsigned(t))
    IN  IF Head(t) = "-" THEN 0 - v ELSE v

(***************************************************************************)
(* calculate_shot_conversion_rate: round(goals / shots, precision).       *)
(* goals / shots is the IEEE double nearest the quotient; round() rounds  *)
(* the exact value of that double to the nearest multiple of              *)
(* 10^-precision, halves to even.                                         *)
(***************************************************************************)
MantissaBits == 53

RECURSIVE Pow10(_)
Pow10(p) == IF p = 0 THEN 1 ELSE 10 * Pow10(p - 1)

Abs(x) == IF x < 0 THEN 0 - x ELSE x

Sign(x) == IF x < 0 THEN 0 - 1 ELSE IF x > 0 THEN 1 ELSE 0

\* long division of r / s (0 <= r < s), bit by bit: after the last mantissa
\* bit, how the double compares with the exact quotient (-1 below, 0 equal,
\* 1 above); lsb is the last bit produced
RECURSIVE DivBits(_, _, _, _)
DivBits(r, s, left, lsb) ==
    IF left = 0
    THEN IF r = 0 THEN 0
         ELSE IF 2 * r > s THEN 1
         ELSE IF 2 * r < s THEN 0 - 1
         ELSE IF lsb = 1 THEN 1 ELSE 0 - 1
    ELSE IF 2 * r >= s THEN DivBits(2 * r - s, s, left - 1, 1)
         ELSE DivBits(2 * r, s, left - 1, 0)

\* scale g / s into [1, 2) by powers of two (exact in binary floating point)
RECURSIVE DoubleVsExact(_, _)
DoubleVsExact(g, s) ==
    IF g < s THEN DoubleVsExact(2 * g, s)
    ELSE IF g >= 2 * s THEN DoubleVsExact(g, 2 * s)
    ELSE DivBits(g - s, s, MantissaBits - 1, 1)

RoundedUnits(g, s, p) ==
    LET scaled == g * Pow10(p)
        q == scaled \div s
        r == scaled % s
    IN  IF 2 * r < s THEN q
        ELSE IF 2 * r > s THEN q + 1
        ELSE LET d == DoubleVsExact(g, s)
             IN  IF d > 0 THEN q + 1
                 ELSE IF d < 0 THEN q
                 ELSE IF q % 2 = 0 THEN q ELSE q + 1

Zero == [ num |-> 0, den |-> 1 ]

Float(num, den) == IF num = 0 THEN Zero ELSE [ num |-> num, den |-> den ]

\* goals / shots raises ZeroDivisionError when shots is 0
TrueDivExc(goals, shots) == IF shots = 0 THEN "ZeroDivisionError" ELSE "ok"

\* the call without its except clause
calculate_shot_conversion_rate_uncaught(goals, shots, precision) == TrueDivExc(goals, shots)

\* what the call raises: the except clause catches ZeroDivisionError
calculate_shot_conversion_rate_exc(goals, shots, precision) ==
    IF TrueDivExc(goals, shots) = "ZeroDivisionError" THEN "ok" ELSE TrueDivExc(goals, shots)

\* the quotient taken with floor division (goals // shots)
calculate_shot_conversion_rate_floor(goals, shots, precision) ==
    IF TrueDivExc(goals, shots) = "ZeroDivisionError"
    THEN Zero
    ELSE Float(goals \div shots, 1)

calculate_shot_conversion_rate(goals, shots, precision) ==
    IF TrueDivExc(goals, shots) = "ZeroDivisionError"
    THEN Zero
    ELSE Float(Sign(goals) * Sign(shots) * RoundedUnits(Abs(goals), Abs(shots), precision),
               Pow10(precision))

DefaultPrecision == 2

\* comparisons of floats
FloatLess(a, b) == a.num * b.den < b.num * a.den

FloatEq(a, b) == a.num * b.den = b.num * a.den

FloatGeq(a, b) == ~ FloatLess(a, b)

Neg(a) == [ a EXCEPT !.num = 0 - a.num ]

(***************************************************************************)
(* Field normalizers                                                       *)
(***************************************************************************)
clean_squad(squad) == << Upper(Prefix(squad, 2)), Suffix(squad, 3) >>

format_player_position(position) ==
    [ i \in 1..Len(position) |-> IF position[i] = "," THEN "|" ELSE position[i] ]

\* len(text.split("|")): one more than the number of separators
RECURSIVE CountChar(_, _)
CountChar(s, c) ==
    IF s = << >> THEN 0
    ELSE (IF Head(s) = c THEN 1 ELSE 0) + CountChar(Tail(s), c)

SplitLen(s, c) == CountChar(s, c) + 1

(***************************************************************************)
(* Row selectors and aggregators.  Each comes with the exception its scan *)
(* raises on the first row that faults ("ok" when none does).             *)
(***************************************************************************)
Min(S) == CHOOSE x \in S : \A y \in S : x <= y

\* the first exception, in list order, of a loop whose rows raise excs ("ok": none)
FirstExc(excs) ==
    LET bad == { i \in 1..Len(excs) : excs[i] # "ok" }
    IN  IF bad = {} THEN "ok" ELSE excs[Min(bad)]

IndexExc(row, idx) == IF HasIdx(row, idx) THEN "ok" ELSE "IndexError"

get_multi_position_players_exc(players, pos_idx) ==
    LET RowExc(row) == IndexExc(row, pos_idx)
    IN  FirstExc([ i \in 1..Len(players) |-> RowExc(players[i]) ])

get_multi_position_players(players, pos_idx) ==
    LET Multi(player) == SplitLen(At(player, pos_idx), "|") > 1
    IN  SelectSeq(players, Multi)

\* player[slice_]: a slice is clipped to the row, it never faults
SliceOf(player, slice_) ==
    SubSeq(player, slice_[1] + 1, IF slice_[2] < Len(player) THEN slice_[2] ELSE Len(player))

get_player_shooting_numbers_exc(player, slice_) ==
    LET shooting_numbers == SliceOf(player, slice_)
    IN  IF \A i \in 1..Len(shooting_numbers) : IsInt(shooting_numbers[i])
        THEN "ok" ELSE "ValueError"

get_player_shooting_numbers(player, slice_) ==
    LET shooting_numbers == SliceOf(player, slice_)
    IN  [ i \in 1..Len(shooting_numbers) |-> ParseInt(shooting_numbers[i]) ]

\* goals, shots, shots_on_target = get_player_shooting_numbers(...):
\* the unpacking needs exactly three values
UnpackExc(player, slice_) ==
    IF get_player_shooting_numbers_exc(player, slice_) # "ok"
    THEN get_player_shooting_numbers_exc(player, slice_)
    ELSE IF Len(SliceOf(player, slice_)) # 3 THEN "ValueError" ELSE "ok"

get_team_exc(players, squad_idx) ==
    LET RowExc(row) == IndexExc(row, squad_idx)
    IN  FirstExc([ i \in 1..Len(players) |-> RowExc(players[i]) ])

get_team(players, squad_idx, squad) ==
    LET Member(player) == Lower(At(player, squad_idx)) = Lower(squad)
    IN  SelectSeq(players, Member)

get_team_names_exc(players, squad_idx) ==
    LET RowExc(row) == IndexExc(row, squad_idx)
    IN  FirstExc([ i \in 1..Len(players) |-> RowExc(players[i]) ])

RECURSIVE TeamNamesScan(_, _, _)
TeamNamesScan(players, squad_idx, list) ==
    IF players = << >> THEN list
    ELSE LET name == At(Head(players), squad_idx)
         IN  TeamNamesScan(Tail(players), squad_idx,
                           IF Has(list, name) THEN list ELSE Append(list, name))

get_team_names(players, squad_idx) == TeamNamesScan(players, squad_idx, << >>)

get_team_shooting_numbers_exc(team, slice_) ==
    LET RowExc(row) == UnpackExc(row, slice_)
    IN  FirstExc([ i \in 1..Len(team) |-> RowExc(team[i]) ])

RECURSIVE TeamShootingScan(_, _, _)
TeamShootingScan(team, slice_, counts) ==
    IF team = << >> THEN counts
    ELSE LET n == get_player_shooting_numbers(Head(team), slice_)
         IN  TeamShootingScan(Tail(team), slice_,
                              << counts[1] + n[1], counts[2] + n[2], counts[3] + n[3] >>)

get_team_shooting_numbers(team, slice_) == TeamShootingScan(team, slice_, << 0, 0, 0 >>)

get_top_scorer_exc(players, gls_idx) ==
    LET RowExc(row) ==
            IF ~ HasIdx(row, gls_idx) THEN "IndexError"
            ELSE IF ~ IsInt(At(row, gls_idx)) THEN "ValueError" ELSE "ok"
    IN  FirstExc([ i \in 1..Len(players) |-> RowExc(players[i]) ])

RECURSIVE TopScorerScan(_, _, _, _)
TopScorerScan(players, gls_idx, list, most_goals) ==
    IF players = << >> THEN list
    ELSE LET player == Head(players)
             g == ParseInt(At(player, gls_idx))
         IN  IF g > 0 /\ g > most_goals
             THEN TopScorerScan(Tail(players), gls_idx, << player >>, g)
             ELSE IF g > 0 /\ g = most_goals
             THEN TopScorerScan(Tail(players), gls_idx, Append(list, player), most_goals)
             ELSE TopScorerScan(Tail(players), gls_idx, list, most_goals)

\* the scan without its elif branch: only the first of the tied rows is kept
RECURSIVE TopScorerScanFirst(_, _, _, _)
TopScorerScanFirst(players, gls_idx, list, most_goals) ==
    IF players = << >> THEN list
    ELSE LET player == Head(players)
             g == ParseInt(At(player, gls_idx))
         IN  IF g > 0 /\ g > most_goals
             THEN TopScorerScanFirst(Tail(players), gls_idx, << player >>, g)
             ELSE TopScorerScanFirst(Tail(players), gls_idx, list, most_goals)

get_top_scorer_first(players, gls_idx) == TopScorerScanFirst(players, gls_idx, << >>, 0)

get_top_scorer(players, gls_idx) == TopScorerScan(players, gls_idx, << >>, 0)

(***************************************************************************)
(* list.sort() of str and sorted(teams, key=...): stable sorts            *)
(***************************************************************************)
RECURSIVE InsertName(_, _)
InsertName(sorted, x) ==
    IF sorted = << >> THEN << x >>
    ELSE IF StrLess(x, Head(sorted)) THEN << x >> \o sorted
    ELSE << Head(sorted) >> \o InsertName(Tail(sorted), x)

RECURSIVE SortNames(_)
SortNames(names) ==
    IF names = << >> THEN << >>
    ELSE InsertName(SortNames(SubSeq(names, 1, Len(names) - 1)), names[Len(names)])

\* x[-k] of Python, k >= 1
FromEnd(row, k) == row[Len(row) + 1 - k]

\* the key taken from the shots rate, one column to the left
TeamKeyLessShots(a, b) ==
    \/ FloatLess(Neg(FromEnd(a, 3)), Neg(FromEnd(b, 3)))
    \/ /\ FloatEq(FromEnd(a, 3), FromEnd(b, 3))
       /\ StrLess(a[1], b[1])

\* the key of the final sort: (-float(x[-2]), x[0])
TeamKeyLess(a, b) ==
    \/ FloatLess(Neg(FromEnd(a, 2)), Neg(FromEnd(b, 2)))
    \/ /\ FloatEq(FromEnd(a, 2), FromEnd(b, 2))
       /\ StrLess(a[1], b[1])

RECURSIVE InsertTeam(_, _)
InsertTeam(sorted, x) ==
    IF sorted = << >> THEN << x >>
    ELSE IF TeamKeyLess(x, Head(sorted)) THEN << x >> \o sorted
    ELSE << Head(sorted) >> \o InsertTeam(Tail(sorted), x)

RECURSIVE SortTeams(_)
SortTeams(teams) ==
    IF teams = << >> THEN << >>
    ELSE InsertTeam(SortTeams(SubSeq(teams, 1, Len(teams) - 1)), teams[Len(teams)])

(***************************************************************************)
(* Literals of main()                                                      *)
(***************************************************************************)
ExpectedHeaders ==
    << <<"R", "k">>,
       <<"P", "l", "a", "y", "e", "r">>,
       <<"P", "o", "s">>,
       <<"S", "q", "u", "a", "d">>,
       <<"A", "g", "e">>,
       <<"B", "o", "r", "n">>,
       <<"9", "0", "s">>,
       <<"G", "l", "s">>,
       <<"S", "h">>,
       <<"S", "o", "T">> >>

LastPlayer ==
    << <<"6", "1", "9">>,
       <<"C", "l", "a", "u", "d", "i", "a", " ", "Z", "o", "r", "n", "o", "z", "a">>,
       <<"M", "F">>,
       <<"e", "s", " ", "S", "p", "a", "i", "n">>,
       <<"3", "2">>,
       <<"1", "9", "9", "0">>,
       <<"0", ".", "4">>,
       <<"0">>,
       <<"0">>,
       <<"0">> >>

CountryCode == <<"C", "o", "u", "n", "t", "r", "y", "_", "C", "o", "d", "e">>

NamePos == <<"P", "o", "s">>

NameSquad == <<"S", "q", "u", "a", "d">>

NameGls == <<"G", "l", "s">>

ChinaPR == <<"C", "h", "i", "n", "a", " ", "P", "R">>

Morocco == <<"M", "o", "r", "o", "c", "c", "o">>

KeepColumns == 10

ExpectedCountries == 32

RateHeaders ==
    << <<"s", "h", "o", "t", "s", "_", "c", "o", "n", "v", "_", "r", "a", "t", "e">>,
       <<"s", "h", "o", "t", "s", "_", "o", "n", "_", "t", "a", "r", "g", "e", "t", "_", "c", "o", "n", "v", "_", "r", "a", "t", "e">> >>

TeamHeaders ==
    << <<"c", "o", "u", "n", "t", "r", "y">>,
       <<"g", "o", "a", "l", "s">>,
       <<"s", "h", "o", "t", "s">>,
       <<"s", "h", "o", "t", "s", "_", "o", "n", "_", "t", "a", "r", "g", "e", "t">> >> \o RateHeaders

EfficiencyRating == <<"e", "f", "f", "i", "c", "i", "e", "n", "c", "y", "_", "r", "a", "t", "i", "n", "g">>

(***************************************************************************)
(* The input file: a table the reader returns, or no file at all.  The    *)
(* tables are built from one player per squad, a few extra rows drawn     *)
(* from ExtraRows, and the last player main() asserts.                    *)
(***************************************************************************)
BaseSquads ==
    << <<"n", "g", " ", "N", "i", "g", "e", "r", "i", "a">>,
       <<"a", "r", " ", "A", "r", "g", "e", "n", "t", "i", "n", "a">>,
       <<"a", "u", " ", "A", "u", "s", "t", "r", "a", "l", "i", "a">>,
       <<"b", "r", " ", "B", "r", "a", "z", "i", "l">>,
       <<"c", "a", " ", "C", "a", "n", "a", "d", "a">>,
       <<"c", "n", " ", "C", "h", "i", "n", "a", " ", "P", "R">>,
       <<"c", "o", " ", "C", "o", "l", "o", "m", "b", "i", "a">>,
       <<"c", "r", " ", "C", "o", "s", "t", "a", " ", "R", "i", "c", "a">>,
       <<"d", "k", " ", "D", "e", "n", "m", "a", "r", "k">>,
       <<"e", "n", " ", "E", "n", "g", "l", "a", "n", "d">>,
       <<"f", "r", " ", "F", "r", "a", "n", "c", "e">>,
       <<"d", "e", " ", "G", "e", "r", "m", "a", "n", "y">>,
       <<"h", "t", " ", "H", "a", "i", "t", "i">>,
       <<"i", "t", " ", "I", "t", "a", "l", "y">>,
       <<"j", "m", " ", "J", "a", "m", "a", "i", "c", "a">>,
       <<"j", "p", " ", "J", "a", "p", "a", "n">>,
       <<"k", "r", " ", "K", "o", "r", "e", "a", " ", "R", "e", "p">>,
       <<"m", "a", " ", "M", "o", "r", "o", "c", "c", "o">>,
       <<"n", "l", " ", "N", "e", "t", "h", "e", "r", "l", "a", "n", "d", "s">>,
       <<"n", "z", " ", "N", "e", "w", " ", "Z", "e", "a", "l", "a", "n", "d">>,
       <<"n", "o", " ", "N", "o", "r", "w", "a", "y">>,
       <<"p", "a", " ", "P", "a", "n", "a", "m", "a">>,
       <<"p", "h", " ", "P", "h", "i", "l", "i", "p", "p", "i", "n", "e", "s">>,
       <<"p", "t", " ", "P", "o", "r", "t", "u", "g", "a", "l">>,
       <<"i", "e", " ", "I", "r", "e", "l", "a", "n", "d">>,
       <<"z", "a", " ", "S", "o", "u", "t", "h", " ", "A", "f", "r", "i", "c", "a">>,
       <<"s", "e", " ", "S", "w", "e", "d", "e", "n">>,
       <<"c", "h", " ", "S", "w", "i", "t", "z", "e", "r", "l", "a", "n", "d">>,
       <<"u", "s", " ", "U", "S", "A">>,
       <<"v", "n", " ", "V", "i", "e", "t", "n", "a", "m">>,
       <<"z", "m", " ", "Z", "a", "m", "b", "i", "a">> >>

SpainSquad == <<"e", "s", " ", "S", "p", "a", "i", "n">>

\* decimal text of a natural number
RECURSIVE IntToStr(_)
IntToStr(n) ==
    IF n < 10 THEN << Chars[Ord["0"] + n] >>
    ELSE IntToStr(n \div 10) \o << Chars[Ord["0"] + (n % 10)] >>

\* goals, shots, shots on target of the base players, by rank modulo 8
BaseStats ==
    << << 0, 3, 1 >>, << 1, 10, 4 >>, << 2, 9, 5 >>, << 3, 12, 10 >>,
       << 1, 8, 5 >>, << 1, 7, 3 >>, << 3, 16, 4 >>, << 1, 9, 6 >> >>

BasePositions == << <<"G", "K">>, <<"M", "F">>, <<"F", "W", ",", "M", "F">> >>

MkRow(rk, player, pos, squad, gls, sh, sot) ==
    << rk, player, pos, squad, <<"2", "5">>, <<"1", "9", "9", "8">>, <<"1", ".", "0">>, gls, sh, sot >>

BaseRow(i) ==
    LET st == BaseStats[(i % 8) + 1]
    IN  MkRow(IntToStr(i), << "P" >> \o IntToStr(i), BasePositions[(i % 3) + 1],
              BaseSquads[i], IntToStr(st[1]), IntToStr(st[2]), IntToStr(st[3]))

BaseRows(n) == [ i \in 1..n |-> BaseRow(i) ]

ExtraRows ==
    << \* a second player of the first squad, tied on goals, with trailing columns
       MkRow(<<"6", "0", "1">>, <<"X", "1">>, <<"D", "F", ",", "M", "F">>, BaseSquads[1], <<"1">>, <<"2">>, <<"1">>)
           \o << <<"0">>, <<"0">> >>,
       \* a row that ends after its squad
       Prefix(MkRow(<<"6", "0", "2">>, <<"X", "2">>, <<"M", "F">>, BaseSquads[4], <<"1">>, <<"2">>, <<"1">>), 4),
       \* goals that are not a number
       MkRow(<<"6", "0", "3">>, <<"X", "3">>, <<"M", "F">>, BaseSquads[4], <<"x">>, <<"2">>, <<"1">>),
       \* the last squad in another case, goals without a shot
       MkRow(<<"6", "0", "4">>, <<"X", "4">>, <<"G", "K">>, Prefix(SpainSquad, 3) \o Upper(Suffix(SpainSquad, 3)),
             <<"2">>, <<"0">>, <<"0">>),
       \* shots on target left empty
       MkRow(<<"6", "0", "5">>, <<"X", "5">>, <<"M", "F">>, BaseSquads[5], <<"1">>, <<"2">>, << >>),
       \* a row without its last column
       Prefix(MkRow(<<"6", "0", "6">>, <<"X", "6">>, <<"M", "F">>, BaseSquads[5], <<"1">>, <<"2">>, <<"1">>), 9),
       \* a row of two fields
       << <<"6", "0", "7">>, <<"X", "7">> >>,
       \* a squad no base player belongs to
       MkRow(<<"6", "0", "8">>, <<"X", "8">>, <<"F", "W", ",", "M", "F">>, <<"z", "z", " ", "Z", "e", "d">>, <<"2">>, <<"2">>, <<"0">>),
       \* a second player of the second squad, with fewer goals than the first
       MkRow(<<"6", "0", "9">>, <<"X", "9">>, <<"D", "F">>, BaseSquads[2], <<"1">>, <<"4">>, <<"2">>) >>

MaxExtra == 2

RECURSIVE ExtraSeqs(_)
ExtraSeqs(n) ==
    IF n = 0 THEN { << >> }
    ELSE ExtraSeqs(n - 1) \cup
         { Append(s, ExtraRows[k]) : s \in { x \in ExtraSeqs(n - 1) : Len(x) = n - 1 },
                                     k \in 1..Len(ExtraRows) }

\* the table of a file: header, players (the extra rows before or after the
\* first base player), then the last player
Table(extra, n, lead) ==
    << ExpectedHeaders >>
    \o (IF lead THEN extra \o BaseRows(n) ELSE << BaseRow(1) >> \o extra \o Tail(BaseRows(n)))
    \o << LastPlayer >>

File(rows) == [ exists |-> TRUE, rows |-> rows ]

NoFile == [ exists |-> FALSE, rows |-> << >> ]

Inputs ==
    { File(Table(extra, n, lead)) :
        extra \in ExtraSeqs(MaxExtra),
        n \in { ExpectedCountries - 2, ExpectedCountries - 1 },
        lead \in BOOLEAN }
    \cup { NoFile,
           File(<< >>),
           File(<< SetAt(ExpectedHeaders, 3, <<"T", "e", "a", "m">>), BaseRow(1), LastPlayer >>),
           File(<< ExpectedHeaders, BaseRow(1) >>) }

(***************************************************************************)
(* State.  pc is the stage main() is about to run; fault the exception    *)
(* that ended the run; files the writes made so far, in order; the rest   *)
(* are the variables of main().  call and ret are the arguments and the   *)
(* outcome of a direct call of calculate_shot_conversion_rate.            *)
(***************************************************************************)
VARIABLES pc, fault, input, files,
          headers, players, pos_idx, squad_idx, gls_idx, countries, top_scorers,
          slice_, teams, team_headers,
          call, ret

memvars == << headers, players, pos_idx, squad_idx, gls_idx, countries, top_scorers,
              slice_, teams, team_headers >>

vars == << pc, fault, input, files, memvars, call, ret >>

Stages ==
    << "load", "reshape", "write_players", "multi_position", "team_china",
       "team_morocco", "countries", "top_scorer", "team_top_scorers", "spot_check",
       "player_rates", "write_efficiency", "team_metrics", "ratings", "rank", "done" >>

StageNo(s) == CHOOSE i \in 1..Len(Stages) : Stages[i] = s

NextStage(s) == Stages[StageNo(s) + 1]

NoFault == [ stage |-> "", exc |-> "ok" ]

Unbound == 0 - 1

NoCall == [ goals |-> 0, shots |-> 0, precision |-> 0 ]

NoRet == [ exc |-> "", value |-> Zero ]

\* the stage completed: main() goes on with the next one
Proceed == pc' = NextStage(pc) /\ fault' = fault

\* an exception swallowed: the stage is skipped and main() goes on
AbortSkipped(exc) ==
    /\ pc' = NextStage(pc)
    /\ fault' = [ stage |-> pc, exc |-> exc ]

\* an exception nobody catches leaves main(): the run is over
Abort(exc) ==
    /\ pc' = "aborted"
    /\ fault' = [ stage |-> pc, exc |-> exc ]

\* the writer called without its headers argument (headers=None)
write_csv_no_headers(filepath, data, hdrs) ==
    files' = Append(files, [ path |-> filepath, header |-> << >>, rows |-> data ])

write_csv(filepath, data, hdrs) ==
    files' = Append(files, [ path |-> filepath, header |-> hdrs, rows |-> data ])

MemInit ==
    /\ headers = << >>
    /\ players = << >>
    /\ pos_idx = Unbound
    /\ squad_idx = Unbound
    /\ gls_idx = Unbound
    /\ countries = << >>
    /\ top_scorers = << >>
    /\ slice_ = << Unbound, Unbound >>
    /\ teams = << >>
    /\ team_headers = << >>

(***************************************************************************)
(* Stage 1: read the file, keep ten columns, check the header and the     *)
(* last player, check the two normalizers, split header and players.      *)
(***************************************************************************)
Load ==
    /\ pc = "load"
    /\ UNCHANGED << input, files, call, ret >>
    /\ UNCHANGED << pos_idx, squad_idx, gls_idx, countries, top_scorers, slice_,
                    teams, team_headers >>
    /\ IF ~ input.exists
       THEN Abort("FileNotFoundError") /\ UNCHANGED << headers, players >>
       ELSE LET data == [ i \in 1..Len(input.rows) |-> Prefix(input.rows[i], KeepColumns) ]
            IN  IF data = << >>
                THEN Abort("IndexError") /\ UNCHANGED << headers, players >>
                ELSE IF \/ data[1] # ExpectedHeaders
                        \/ data[Len(data)] # LastPlayer
                        \/ format_player_position(<<"M", "F", ",", "D", "F">>)
                               # <<"M", "F", "|", "D", "F">>
                        \/ format_player_position(<<"G", "K">>) # <<"G", "K">>
                        \/ clean_squad(<<"n", "g", " ", "N", "i", "g", "e", "r", "i", "a">>)
                               # << <<"N", "G">>, <<"N", "i", "g", "e", "r", "i", "a">> >>
                        \/ clean_squad(<<"z", "a", " ", "S", "o", "u", "t", "h", " ", "A", "f", "r", "i", "c", "a">>)
                               # << <<"Z", "A">>,
                                    <<"S", "o", "u", "t", "h", " ", "A", "f", "r", "i", "c", "a">> >>
                THEN Abort("AssertionError") /\ UNCHANGED << headers, players >>
                ELSE /\ headers' = data[1]
                     /\ players' = Tail(data)
                     /\ Proceed

(***************************************************************************)
(* Stages 2 and 3: one loop reformats the position and splits the squad   *)
(* of every player; then the header gains "Country_Code" and squad_idx    *)
(* moves by one.                                                          *)
(***************************************************************************)
ReshapeRowExc(player, p_idx, s_idx) ==
    IF ~ HasIdx(player, p_idx) \/ ~ HasIdx(player, s_idx) THEN "IndexError" ELSE "ok"

ReshapeRow(player, p_idx, s_idx) ==
    LET p1 == SetAt(player, p_idx, format_player_position(At(player, p_idx)))
        cs == clean_squad(At(p1, s_idx))
        p2 == Insert(p1, s_idx, cs[1])
    IN  SetAt(p2, s_idx + 1, cs[2])

\* the row the loop faults on: its position is rewritten when it has one
ReshapeRowPartly(player, p_idx, s_idx) ==
    IF HasIdx(player, p_idx)
    THEN SetAt(player, p_idx, format_player_position(At(player, p_idx)))
    ELSE player

\* headers.insert(squad_idx, "Country_Code"), and the insert left out
HeadersWithoutCode(hdrs, s_idx) == hdrs

HeadersWithCode(hdrs, s_idx) == Insert(hdrs, s_idx, CountryCode)

\* squad_idx += 1, and the increment left out
SquadIdxKept(s_idx) == s_idx

SquadIdxShifted(s_idx) == s_idx + 1

Reshape ==
    /\ pc = "reshape"
    /\ UNCHANGED << input, files, call, ret >>
    /\ UNCHANGED << gls_idx, countries, top_scorers, slice_, teams, team_headers >>
    /\ IF ~ Has(headers, NamePos)
       THEN Abort("ValueError") /\ UNCHANGED << headers, players, pos_idx, squad_idx >>
       ELSE IF ~ Has(headers, NameSquad)
       THEN /\ Abort("ValueError")
            /\ pos_idx' = IndexOf(headers, NamePos)
            /\ UNCHANGED << headers, players, squad_idx >>
       ELSE LET p_idx == IndexOf(headers, NamePos)
                s_idx == IndexOf(headers, NameSquad)
                RowExc(row) == ReshapeRowExc(row, p_idx, s_idx)
                bad == { i \in 1..Len(players) : RowExc(players[i]) # "ok" }
            IN  /\ pos_idx' = p_idx
                /\ IF bad # {}
                   THEN /\ Abort(FirstExc([ i \in 1..Len(players) |-> RowExc(players[i]) ]))
                        /\ squad_idx' = s_idx
                        /\ headers' = headers
                        /\ players' = [ i \in 1..Len(players) |->
                               IF i < Min(bad) THEN ReshapeRow(players[i], p_idx, s_idx)
                               ELSE IF i = Min(bad)
                                    THEN ReshapeRowPartly(players[i], p_idx, s_idx)
                                    ELSE players[i] ]
                   ELSE /\ players' = [ i \in 1..Len(players) |->
                                          ReshapeRow(players[i], p_idx, s_idx) ]
                        /\ headers' = HeadersWithCode(headers, s_idx)
                        /\ squad_idx' = SquadIdxShifted(s_idx)
                        /\ Proceed

\* Stage 4
WritePlayers ==
    /\ pc = "write_players"
    /\ write_csv("stu-players.csv", players, headers)
    /\ Proceed
    /\ UNCHANGED << input, memvars, call, ret >>

\* Stage 5
MultiPosition ==
    /\ pc = "multi_position"
    /\ UNCHANGED << input, memvars, call, ret >>
    /\ IF get_multi_position_players_exc(players, pos_idx) # "ok"
       THEN Abort(get_multi_position_players_exc(players, pos_idx)) /\ UNCHANGED files
       ELSE /\ write_csv("stu-players-multi_position.csv",
                         get_multi_position_players(players, pos_idx), headers)
            /\ Proceed

\* Stage 6, first team
TeamChina ==
    /\ pc = "team_china"
    /\ UNCHANGED << input, memvars, call, ret >>
    /\ IF get_team_exc(players, squad_idx) # "ok"
       THEN Abort(get_team_exc(players, squad_idx)) /\ UNCHANGED files
       ELSE /\ write_csv("stu-team-china.csv", get_team(players, squad_idx, ChinaPR), headers)
            /\ Proceed

\* Stage 6, second team
TeamMorocco ==
    /\ pc = "team_morocco"
    /\ UNCHANGED << input, memvars, call, ret >>
    /\ IF get_team_exc(players, squad_idx) # "ok"
       THEN Abort(get_team_exc(players, squad_idx)) /\ UNCHANGED files
       ELSE /\ write_csv("stu-team-morocco.csv", get_team(players, squad_idx, Morocco), headers)
            /\ Proceed

\* Stage 7: the sorted squad names, 32 of them
Countries ==
    /\ pc = "countries"
    /\ UNCHANGED << input, files, call, ret >>
    /\ UNCHANGED << headers, players, pos_idx, squad_idx, gls_idx, top_scorers, slice_,
                    teams, team_headers >>
    /\ IF get_team_names_exc(players, squad_idx) # "ok"
       THEN Abort(get_team_names_exc(players, squad_idx)) /\ UNCHANGED countries
       ELSE LET names == SortNames(get_team_names(players, squad_idx))
            IN  /\ countries' = names
                /\ IF Len(names) = ExpectedCountries THEN Proceed ELSE Abort("AssertionError")

\* Stage 8: the top scorers of the tournament
TopScorer ==
    /\ pc = "top_scorer"
    /\ UNCHANGED << input, files, call, ret >>
    /\ UNCHANGED << headers, players, pos_idx, squad_idx, countries, slice_, teams,
                    team_headers >>
    /\ IF ~ Has(headers, NameGls)
       THEN Abort("ValueError") /\ UNCHANGED << gls_idx, top_scorers >>
       ELSE LET g_idx == IndexOf(headers, NameGls)
            IN  /\ gls_idx' = g_idx
                /\ IF get_top_scorer_exc(players, g_idx) # "ok"
                   THEN Abort(get_top_scorer_exc(players, g_idx)) /\ UNCHANGED top_scorers
                   ELSE top_scorers' = get_top_scorer(players, g_idx) /\ Proceed

\* Stage 9: the top scorers of every squad, in the order of countries
RECURSIVE TeamTopScorersLoop(_, _)
TeamTopScorersLoop(names, acc) ==
    IF names = << >> THEN acc
    ELSE TeamTopScorersLoop(Tail(names),
             acc \o get_top_scorer(get_team(players, squad_idx, Head(names)), gls_idx))

TeamTopScorers ==
    /\ pc = "team_top_scorers"
    /\ UNCHANGED << input, call, ret >>
    /\ UNCHANGED << headers, players, pos_idx, squad_idx, gls_idx, countries, slice_,
                    teams, team_headers >>
    /\ IF countries # << >> /\ get_team_exc(players, squad_idx) # "ok"
       THEN Abort(get_team_exc(players, squad_idx)) /\ UNCHANGED << files, top_scorers >>
       ELSE IF countries # << >> /\ get_top_scorer_exc(players, gls_idx) # "ok"
       THEN Abort(get_top_scorer_exc(players, gls_idx)) /\ UNCHANGED << files, top_scorers >>
       ELSE /\ top_scorers' =
                   IF countries = << >> THEN top_scorers
                   ELSE get_top_scorer(
                            get_team(players, squad_idx, countries[Len(countries)]), gls_idx)
            /\ write_csv("stu-team-top_scorers.csv",
                         TeamTopScorersLoop(countries, << >>), headers)
            /\ Proceed

\* Stage 10: the columns from "Gls" to the end of the header, and the
\* numbers of the first player
SpotCheck ==
    /\ pc = "spot_check"
    /\ UNCHANGED << input, files, call, ret >>
    /\ UNCHANGED << headers, players, pos_idx, squad_idx, gls_idx, countries, top_scorers,
                    teams, team_headers >>
    /\ LET columns == << gls_idx, Len(headers) >>
       IN  /\ slice_' = columns
           /\ IF players = << >>
              THEN Abort("IndexError")
              ELSE IF UnpackExc(players[1], columns) # "ok"
              THEN Abort(UnpackExc(players[1], columns))
              ELSE IF get_player_shooting_numbers(players[1], columns) # << 1, 10, 4 >>
              THEN Abort("AssertionError")
              ELSE Proceed

\* Stage 11: two conversion rates appended to every player, three decimals
PlayerRatesRowExc(player) ==
    IF UnpackExc(player, slice_) # "ok" THEN UnpackExc(player, slice_)
    ELSE LET n == get_player_shooting_numbers(player, slice_)
         IN  IF calculate_shot_conversion_rate_exc(n[1], n[2], 3) # "ok"
             THEN calculate_shot_conversion_rate_exc(n[1], n[2], 3)
             ELSE calculate_shot_conversion_rate_exc(n[1], n[3], 3)

PlayerRatesRow(player) ==
    LET n == get_player_shooting_numbers(player, slice_)
    IN  player \o << calculate_shot_conversion_rate(n[1], n[2], 3),
                     calculate_shot_conversion_rate(n[1], n[3], 3) >>

PlayerRates ==
    /\ pc = "player_rates"
    /\ UNCHANGED << input, files, call, ret >>
    /\ UNCHANGED << headers, pos_idx, squad_idx, gls_idx, countries, top_scorers, slice_,
                    teams, team_headers >>
    /\ LET bad == { i \in 1..Len(players) : PlayerRatesRowExc(players[i]) # "ok" }
       IN  IF bad # {}
           THEN /\ Abort(FirstExc([ i \in 1..Len(players) |-> PlayerRatesRowExc(players[i]) ]))
                /\ players' = [ i \in 1..Len(players) |->
                       IF i < Min(bad) THEN PlayerRatesRow(players[i]) ELSE players[i] ]
           ELSE /\ players' = [ i \in 1..Len(players) |-> PlayerRatesRow(players[i]) ]
                /\ Proceed

\* Stage 12
WriteEfficiency ==
    /\ pc = "write_efficiency"
    /\ UNCHANGED << input, call, ret >>
    /\ UNCHANGED << players, pos_idx, squad_idx, gls_idx, countries, top_scorers, slice_,
                    teams, team_headers >>
    /\ headers' = headers \o RateHeaders
    /\ write_csv("stu-players-shooting_efficiency.csv", players, headers \o RateHeaders)
    /\ Proceed

\* Stage 13: one summary row per squad name, two decimals
TeamMetricsExc(country) ==
    LET team == get_team(players, squad_idx, country)
    IN  IF get_team_shooting_numbers_exc(team, slice_) # "ok"
        THEN get_team_shooting_numbers_exc(team, slice_)
        ELSE LET n == get_team_shooting_numbers(team, slice_)
             IN  IF calculate_shot_conversion_rate_exc(n[1], n[2], DefaultPrecision) # "ok"
                 THEN calculate_shot_conversion_rate_exc(n[1], n[2], DefaultPrecision)
                 ELSE calculate_shot_conversion_rate_exc(n[1], n[3], DefaultPrecision)

TeamMetricsRow(country) ==
    LET n == get_team_shooting_numbers(get_team(players, squad_idx, country), slice_)
    IN  << country, n[1], n[2], n[3],
           calculate_shot_conversion_rate(n[1], n[2], DefaultPrecision),
           calculate_shot_conversion_rate(n[1], n[3], DefaultPrecision) >>

TeamMetrics ==
    /\ pc = "team_metrics"
    /\ UNCHANGED << input, call, ret >>
    /\ UNCHANGED << headers, players, pos_idx, squad_idx, gls_idx, countries, top_scorers,
                    slice_ >>
    /\ team_headers' = TeamHeaders
    /\ IF countries # << >> /\ get_team_exc(players, squad_idx) # "ok"
       THEN Abort(get_team_exc(players, squad_idx)) /\ UNCHANGED << files, teams >>
       ELSE IF FirstExc([ i \in 1..Len(countries) |-> TeamMetricsExc(countries[i]) ]) # "ok"
       THEN /\ Abort(FirstExc([ i \in 1..Len(countries) |-> TeamMetricsExc(countries[i]) ]))
            /\ UNCHANGED << files, teams >>
       ELSE LET rows == [ i \in 1..Len(countries) |-> TeamMetricsRow(countries[i]) ]
            IN  /\ teams' = rows
                /\ write_csv("stu-team-shooting_efficiency.csv", rows, TeamHeaders)
            /\ Proceed

\* Stage 14: the tier of every summary row, from its last column
TopTierRate == [ num |-> 4, den |-> 10 ]

UpperMiddleRate == [ num |-> 3, den |-> 10 ]

LowerMiddleRate == [ num |-> 2, den |-> 10 ]

\* the tier taken from the shots rate, the column before the last
RatingOfShotsRate(team) ==
    LET conv_rate == FromEnd(team, 2)
    IN  IF FloatGeq(conv_rate, TopTierRate) THEN "Top Tier"
        ELSE IF FloatGeq(conv_rate, UpperMiddleRate) /\ FloatLess(conv_rate, TopTierRate)
        THEN "Upper Middle Tier"
        ELSE IF FloatGeq(conv_rate, LowerMiddleRate) /\ FloatLess(conv_rate, UpperMiddleRate)
        THEN "Lower Middle Tier"
        ELSE "Bottom Tier"

RatingOf(team) ==
    LET conv_rate == FromEnd(team, 1)
    IN  IF FloatGeq(conv_rate, TopTierRate) THEN "Top Tier"
        ELSE IF FloatGeq(conv_rate, UpperMiddleRate) /\ FloatLess(conv_rate, TopTierRate)
        THEN "Upper Middle Tier"
        ELSE IF FloatGeq(conv_rate, LowerMiddleRate) /\ FloatLess(conv_rate, UpperMiddleRate)
        THEN "Lower Middle Tier"
        ELSE "Bottom Tier"

Ratings ==
    /\ pc = "ratings"
    /\ UNCHANGED << input, files, call, ret >>
    /\ UNCHANGED << headers, players, pos_idx, squad_idx, gls_idx, countries, top_scorers,
                    slice_ >>
    /\ teams' = [ i \in 1..Len(teams) |-> Append(teams[i], RatingOf(teams[i])) ]
    /\ team_headers' = Append(team_headers, EfficiencyRating)
    /\ Proceed

\* Stage 15: the ranked report
Rank ==
    /\ pc = "rank"
    /\ UNCHANGED << input, call, ret >>
    /\ UNCHANGED << headers, players, pos_idx, squad_idx, gls_idx, countries, top_scorers,
                    slice_, team_headers >>
    /\ teams' = SortTeams(teams)
    /\ write_csv("stu-team-shooting_efficiency_ratings.csv", SortTeams(teams), team_headers)
    /\ Proceed

(***************************************************************************)
(* A direct call of calculate_shot_conversion_rate                        *)
(***************************************************************************)
MaxGoals == 3

MaxShots == 10

MaxPrecision == 3

Calls ==
    [ goals : (0 - MaxGoals)..MaxGoals, shots : 0..MaxShots, precision : 0..MaxPrecision ]

RateCall ==
    /\ pc = "call"
    /\ pc' = "returned"
    /\ ret' = [ exc |-> calculate_shot_conversion_rate_exc(call.goals, call.shots,
                                                           call.precision),
                value |-> calculate_shot_conversion_rate(call.goals, call.shots,
                                                         call.precision) ]
    /\ UNCHANGED << fault, input, files, memvars, call >>

Init ==
    /\ fault = NoFault
    /\ files = << >>
    /\ MemInit
    /\ ret = NoRet
    /\ \/ pc = "load" /\ input \in Inputs /\ call = NoCall
       \/ pc = "call" /\ input = NoFile /\ call \in Calls

Next ==
    \/ Load
    \/ Reshape
    \/ WritePlayers
    \/ MultiPosition
    \/ TeamChina
    \/ TeamMorocco
    \/ Countries
    \/ TopScorer
    \/ TeamTopScorers
    \/ SpotCheck
    \/ PlayerRates
    \/ WriteEfficiency
    \/ TeamMetrics
    \/ Ratings
    \/ Rank
    \/ RateCall

Spec == Init /\ [][Next]_vars

(***************************************************************************)
(* Properties                                                              *)
(***************************************************************************)
Pipeline == pc \notin { "call", "returned" }

\* stage s has run to completion
Reached(s) ==
    /\ Pipeline
    /\ IF pc = "aborted" THEN StageNo(fault.stage) > StageNo(s) ELSE StageNo(pc) > StageNo(s)

\* the players as the file gave them (ten columns kept), in the order of players
Given(i) == Prefix(input.rows[i + 1], KeepColumns)

Max(S) == CHOOSE x \in S : \A y \in S : x >= y

RECURSIVE Concat(_)
Concat(seqs) == IF seqs = << >> THEN << >> ELSE Head(seqs) \o Concat(Tail(seqs))

RECURSIVE Sum(_)
Sum(ns) == IF ns = << >> THEN 0 ELSE Head(ns) + Sum(Tail(ns))

Occurrences(seq, x) == Cardinality({ i \in 1..Len(seq) : seq[i] = x })

\* the rows with the largest goal count of the list, when that count is positive
TopRows(rows, idx) ==
    LET G(r) == ParseInt(At(r, idx))
        best == Max({ G(rows[i]) : i \in 1..Len(rows) } \cup { 0 })
        IsTop(r) == G(r) = best /\ G(r) > 0
    IN  SelectSeq(rows, IsTop)

TeamsTopRows ==
    Concat([ k \in 1..Len(countries) |->
               TopRows(get_team(players, squad_idx, countries[k]), gls_idx) ])

\* C1: get_top_scorer returns exactly the rows whose goal count is the maximum of
\* the list and greater than 0, ties included, in input order; it returns nothing
\* when no row has a goal.  Checked on the tournament list (stage 8) and on the
\* list of every squad (stage 9).
C1_TopScorers ==
    /\ pc = "team_top_scorers" => top_scorers = TopRows(players, gls_idx)
    /\ pc = "spot_check" =>
          /\ files[Len(files)].rows = TeamsTopRows
          /\ \A i \in 1..Len(files[Len(files)].rows) :
                ParseInt(At(files[Len(files)].rows[i], gls_idx)) > 0

C1_Witness ==
    /\ pc = "spot_check"
    /\ \E k \in 1..Len(countries) :
          Len(TopRows(get_team(players, squad_idx, countries[k]), gls_idx)) >= 2
    /\ \E k \in 1..Len(countries) :
          /\ get_team(players, squad_idx, countries[k]) # << >>
          /\ TopRows(get_team(players, squad_idx, countries[k]), gls_idx) = << >>
    /\ \E i \in 1..Len(players) :
          /\ ParseInt(At(players[i], gls_idx)) > 0
          /\ ~ Has(files[Len(files)].rows, players[i])

ColumnsAgree ==
    /\ Has(headers, CountryCode) /\ IndexOf(headers, CountryCode) = squad_idx - 1
    /\ At(headers, pos_idx) = NamePos
    /\ At(headers, squad_idx) = NameSquad
    /\ gls_idx # Unbound => At(headers, gls_idx) = NameGls

RowAgrees(i) ==
    /\ At(players[i], squad_idx - 1) = Upper(Prefix(At(Given(i), 3), 2))
    /\ At(players[i], pos_idx) = format_player_position(At(Given(i), 2))
    /\ ~ Has(At(players[i], pos_idx), ",")
    /\ At(players[i], squad_idx) = Suffix(At(Given(i), 3), 3)

RowHasGoals(i) ==
    /\ HasIdx(players[i], IndexOf(headers, NameGls))
    /\ At(players[i], IndexOf(headers, NameGls)) = At(Given(i), 7)

\* C2 as claimed: after the squad split the header and every row agree on
\* "Country_Code", "Pos", "Squad" and "Gls", every row holding its goal count.
C2_Original ==
    Reached("reshape") =>
        /\ ColumnsAgree
        /\ \A i \in 1..Len(players) : RowAgrees(i) /\ RowHasGoals(i)

\* C2: after the squad split, "Country_Code" is in the header where the upper-case
\* code is in every row, right before "Squad"; pos_idx, squad_idx (moved by one)
\* and gls_idx name "Pos", "Squad" and "Gls"; every row holds the pipe-delimited
\* position and the bare squad name there, and its goal count when the file gave
\* the row a "Gls" field (eight fields or more).
C2_ColumnIndices ==
    Reached("reshape") =>
        /\ ColumnsAgree
        /\ \A i \in 1..Len(players) :
              /\ RowAgrees(i)
              /\ Len(Given(i)) >= 8 => RowHasGoals(i)

C2_Witness ==
    /\ pc = "team_top_scorers"
    /\ gls_idx # Unbound
    /\ \E i \in 1..Len(players) : SplitLen(At(players[i], pos_idx), "|") > 1

IsTeamFile(f) ==
    f.path \in { "stu-team-shooting_efficiency.csv", "stu-team-shooting_efficiency_ratings.csv" }

Lockstep ==
    \A k \in 1..Len(files) :
        ~ IsTeamFile(files[k]) =>
            /\ \A i \in 1..Len(files[k].rows) : Len(files[k].rows[i]) = Len(files[k].header)
            /\ Len(files[k].header) =
                  IF files[k].path = "stu-players-shooting_efficiency.csv" THEN 13 ELSE 11

\* C3 as claimed: whenever the file has the expected header, every player table
\* written has a header as long as each of its rows.
C3_Original == Pipeline => Lockstep

InputRowsFull ==
    \A i \in 2..Len(input.rows) : Len(input.rows[i]) >= KeepColumns

\* C3: when the file has the expected header and every player row of it has at
\* least ten fields, every player table written has a header as long as each of
\* its rows: 11 before the two rate columns are appended, 13 after.
C3_Lockstep == (Pipeline /\ InputRowsFull) => Lockstep

C3_Witness ==
    /\ InputRowsFull
    /\ Len(files) >= 6
    /\ \A k \in 1..6 : files[k].rows # << >>
    /\ \E i \in 2..Len(input.rows) : Len(input.rows[i]) > KeepColumns

\* the file a stage writes ("" when it writes none)
StagePath ==
    [ s \in { Stages[i] : i \in 1..Len(Stages) } |->
        CASE s = "write_players" -> "stu-players.csv"
          [] s = "multi_position" -> "stu-players-multi_position.csv"
          [] s = "team_china" -> "stu-team-china.csv"
          [] s = "team_morocco" -> "stu-team-morocco.csv"
          [] s = "team_top_scorers" -> "stu-team-top_scorers.csv"
          [] s = "write_efficiency" -> "stu-players-shooting_efficiency.csv"
          [] s = "team_metrics" -> "stu-team-shooting_efficiency.csv"
          [] s = "rank" -> "stu-team-shooting_efficiency_ratings.csv"
          [] OTHER -> "" ]

PathsBefore(s) ==
    LET Writes(p) == p # ""
    IN  SelectSeq([ i \in 1..(StageNo(s) - 1) |-> StagePath[Stages[i]] ], Writes)

\* an input no stage faults on
IsStat(row, c) == HasIdx(row, c) /\ IsInt(At(row, c))

CleanInput ==
    /\ input.exists
    /\ Len(input.rows) >= 2
    /\ Prefix(input.rows[1], KeepColumns) = ExpectedHeaders
    /\ Prefix(input.rows[Len(input.rows)], KeepColumns) = LastPlayer
    /\ \A i \in 2..Len(input.rows) :
          /\ Len(input.rows[i]) >= KeepColumns
          /\ \A c \in 7..9 : IsStat(input.rows[i], c)
    /\ Cardinality({ Suffix(At(input.rows[i], 3), 3) : i \in 2..Len(input.rows) })
          = ExpectedCountries
    /\ << ParseInt(At(input.rows[2], 7)), ParseInt(At(input.rows[2], 8)),
          ParseInt(At(input.rows[2], 9)) >> = << 1, 10, 4 >>

\* what a fault leaves behind, and the inputs that reach the end
FailFastState ==
    Pipeline =>
        /\ fault # NoFault <=> pc = "aborted"
        /\ pc = "aborted" =>
              /\ fault.exc # "ZeroDivisionError"
              /\ [ k \in 1..Len(files) |-> files[k].path ] = PathsBefore(fault.stage)
              /\ Len(files) >= 1 =>
                    files[1].rows =
                        [ i \in 1..Len(players) |-> Prefix(players[i], Len(Given(i)) + 1) ]
        /\ pc = "done" => CleanInput
        /\ CleanInput => pc # "aborted"

\* C4: a fault other than a division by zero ends the run at its stage: no later
\* stage runs, no later file is written, and the files of the earlier stages are
\* the ones left, as they were written; a run reaches its end only on an input no
\* stage faults on.  No step leaves an aborted run, and a step only adds to the
\* files written.
C4_FailFast ==
    [][ /\ pc # "aborted"
        /\ files = SubSeq(files', 1, Len(files))
        /\ FailFastState' ]_vars

C4_Witness ==
    /\ pc = "aborted"
    /\ fault.stage = "player_rates"
    /\ fault.exc = "ValueError"
    /\ Len(files) = 5
    /\ \E i \in 1..Len(players) : Len(players[i]) = 13

\* C5: calculate_shot_conversion_rate never faults on shots = 0 and returns 0.0,
\* whatever the goals and the precision; a player or a squad without a shot (or
\* without a shot on target) gets the rate 0.0 and the run goes on.
C5_ZeroShots ==
    /\ (pc = "returned" /\ call.shots = 0) => (ret.exc = "ok" /\ ret.value = Zero)
    /\ fault.exc # "ZeroDivisionError"
    /\ Reached("player_rates") =>
          \A i \in 1..Len(players) :
              /\ ParseInt(At(Given(i), 8)) = 0 => At(players[i], 11) = Zero
              /\ ParseInt(At(Given(i), 9)) = 0 => At(players[i], 12) = Zero
    /\ Reached("team_metrics") =>
          \A k \in 1..Len(teams) :
              /\ teams[k][3] = 0 => teams[k][5] = Zero
              /\ teams[k][4] = 0 => teams[k][6] = Zero

C5_Witness ==
    /\ pc = "ratings"
    /\ \E i \in 1..Len(players) :
          ParseInt(At(Given(i), 8)) = 0 /\ ParseInt(At(Given(i), 7)) > 0
    /\ \E k \in 1..Len(teams) : teams[k][3] = 0 /\ teams[k][2] > 0

IsCall(g, s, p) == pc = "returned" /\ call = [ goals |-> g, shots |-> s, precision |-> p ]

\* C6 as claimed: conversionRate(1, 10, 3) == 0.333
C6_Original == IsCall(1, 10, 3) => FloatEq(ret.value, [ num |-> 333, den |-> 1000 ])

\* C6: conversionRate(1, 10, 3) == 0.1: with goals = 1, shots = 10 and
\* precision = 3 the call returns goals / shots rounded to three decimals, 0.1.
C6_OneInTen ==
    IsCall(1, 10, 3) => (ret.exc = "ok" /\ FloatEq(ret.value, [ num |-> 100, den |-> 1000 ]))

C6_Witness == IsCall(1, 10, 3) /\ ret.value.num # 0

Hundredths(rate) == (rate.num * 100) \div rate.den

TierOf(h) ==
    IF h >= 40 THEN "Top Tier"
    ELSE IF h >= 30 THEN "Upper Middle Tier"
    ELSE IF h >= 20 THEN "Lower Middle Tier"
    ELSE "Bottom Tier"

\* C7: every team summary row gets exactly one tier, as its last column, from its
\* shots-on-target rate (the sixth column, in hundredths): Top Tier from 0.40,
\* Upper Middle Tier from 0.30, Lower Middle Tier from 0.20, Bottom Tier below.
C7_Tiers ==
    Reached("ratings") =>
        /\ Len(teams) = Len(countries)
        /\ \A k \in 1..Len(teams) :
              /\ Len(teams[k]) = 7
              /\ Hundredths(teams[k][6]) * teams[k][6].den = teams[k][6].num * 100
              /\ teams[k][7] = TierOf(Hundredths(teams[k][6]))

C7_Witness ==
    /\ pc = "rank"
    /\ \A tier \in { "Top Tier", "Upper Middle Tier", "Lower Middle Tier", "Bottom Tier" } :
          \E k \in 1..Len(teams) : teams[k][7] = tier
    /\ \E k \in 1..Len(teams) : Hundredths(teams[k][6]) = 40
    /\ \E k \in 1..Len(teams) : Hundredths(teams[k][6]) = 30
    /\ \E k \in 1..Len(teams) : Hundredths(teams[k][6]) = 20
    /\ \E k \in 1..Len(teams) : TierOf(Hundredths(teams[k][5])) # teams[k][7]

\* the summary rows as they were written by stage 13, with their tier
Rated(row) == Append(row, TierOf(Hundredths(row[6])))

\* C8: the ranked report is a permutation of the team summary rows, by
\* shots-on-target rate descending, equal rates by squad name ascending.
C8_Ranked ==
    pc = "done" =>
        LET ranked == files[Len(files)].rows
            summary == files[Len(files) - 1].rows
        IN  /\ ranked = teams
            /\ Len(ranked) = Len(summary)
            /\ \A k \in 1..Len(summary) :
                  Occurrences(ranked, Rated(summary[k])) = Occurrences(summary, summary[k])
            /\ \A i \in 1..Len(ranked) : \A j \in (i + 1)..Len(ranked) :
                  \/ FloatLess(ranked[j][6], ranked[i][6])
                  \/ /\ FloatEq(ranked[j][6], ranked[i][6])
                     /\ StrLess(ranked[i][1], ranked[j][1])

C8_Witness ==
    /\ pc = "done"
    /\ LET ranked == files[Len(files)].rows
       IN  /\ \E i \in 1..(Len(ranked) - 1) : FloatEq(ranked[i][6], ranked[i + 1][6])
           /\ \E i \in 1..(Len(ranked) - 1) : FloatLess(ranked[i][5], ranked[i + 1][5])
           /\ \E k \in 1..Len(ranked) : ranked[k][1] # files[Len(files) - 1].rows[k][1]

\* the header in memory right after a stage that writes
HeaderAtWrite ==
    /\ Pipeline /\ pc # "aborted" /\ pc # "load" /\ StagePath[Stages[StageNo(pc) - 1]] # ""
          => files[Len(files)].header =
                IF IsTeamFile(files[Len(files)]) THEN team_headers ELSE headers
    /\ \A k \in 1..Len(files) : files[k].header # << >>

WrittenOnce(n) ==
    /\ Len(files) = n
    /\ \A i \in 1..Len(files) : \A j \in 1..Len(files) :
          files[i].path = files[j].path => i = j

\* C9 as claimed: a complete run writes six files, each once, each with the
\* header in memory at the time of its write.
C9_Original == (pc = "done" => WrittenOnce(6)) /\ HeaderAtWrite

\* C9: a complete, fault-free run writes exactly eight output files, each once,
\* each with a header row equal to the header in memory at the time of its write.
C9_EightFiles == (pc = "done" => WrittenOnce(8)) /\ HeaderAtWrite

C9_Witness == pc = "done" /\ Len(files[1].header) < Len(headers)

\* C10: the squads partition the players: every player is in exactly one team
\* summary row, so the goals, shots and shots on target summed over the summary
\* rows are the sums over the players.
C10_Partition ==
    Reached("team_metrics") =>
        /\ \A i \in 1..Len(players) :
              Cardinality({ k \in 1..Len(countries) :
                  Has(get_team(players, squad_idx, countries[k]), players[i]) }) = 1
        /\ \A c \in 2..4 :
              Sum([ k \in 1..Len(teams) |-> teams[k][c] ])
                 = Sum([ i \in 1..Len(players) |-> ParseInt(At(Given(i), c + 5)) ])

====
